---- MODULE Spec2Model ----
(***************************************************************************)
(* Download gateway and M-Pesa payment reconciliation of the marketplace   *)
(* backend: orders, order items (download entitlements), payments, the      *)
(* provider rows, the confirmation queue and the download log, driven by    *)
(* the HTTP handlers of orders/views.py, payments/views.py, orders/utils.py.*)
(***************************************************************************)
EXTENDS Integers, FiniteSets, Sequences, TLC

(* ------------------------------ bounds -------------------------------- *)
MaxOrders == 1
MaxPayments == 2
MaxCids == 2
MaxTokens == 3
MaxNow == 31
MaxLogs == 6

(* ------------------------- program constants -------------------------- *)
DownloadLimitDefault == 5
DownloadDays == 30

Users == {"u1", "u2"}
Buyers == {"u1"}
Products == {"p1", "p2"}
Quantities == {1}
Slots == {1, 2}

NoToken == 0
NoTime == -1
NoCid == 0
NoCode == -1
NoKey == 0

OrderIds == 1..MaxOrders
PaymentIds == 1..MaxPayments

VARIABLES orders, items, payments, mpesa, emails, logs, reqs, productDownloads,
          files, now, nextOrder, nextPayment, nextCid, nextToken, resp

vars == <<orders, items, payments, mpesa, emails, logs, reqs, productDownloads,
          files, now, nextOrder, nextPayment, nextCid, nextToken, resp>>

db == <<orders, items, payments, mpesa>>

(* ------------------------------ products ------------------------------ *)
get_price(p) == IF p = "p1" THEN 100 ELSE 0

ProductRank(p) == IF p = "p1" THEN 0 ELSE 1

(* ---------------------------- phone numbers --------------------------- *)
(* a phone number is the sequence of its characters; NoPhone: not supplied *)
NoPhone == <<>>

DefaultPhone == <<"0", "7", "1", "2", "3", "4", "5", "6", "7", "8">>

Digits == {"0", "1", "2", "3", "4", "5", "6", "7", "8", "9"}

startswith(s, pre) == Len(s) >= Len(pre) /\ SubSeq(s, 1, Len(pre)) = pre

Drop(s, n) == SubSeq(s, n + 1, Len(s))

Code254 == <<"2", "5", "4">>

(* [17]\d{8}$ *)
Subscriber(s) == Len(s) = 9 /\ s[1] \in {"1", "7"} /\ \A i \in 1..Len(s) : s[i] \in Digits

(* ^254[17]\d{8}$ *)
mpesa_pattern(s) == startswith(s, Code254) /\ Subscriber(Drop(s, 3))

phone_pattern_AnyOperator(s) ==
    \E pre \in {<<"+">> \o Code254, Code254, <<"0">>} :
        /\ startswith(s, pre)
        /\ Len(Drop(s, Len(pre))) = 9
        /\ \A i \in 1..Len(s) : i > Len(pre) => s[i] \in Digits

(* ^(\+254|254|0)[17]\d{8}$ *)
phone_pattern(s) ==
    \E pre \in {<<"+">> \o Code254, Code254, <<"0">>} :
        startswith(s, pre) /\ Subscriber(Drop(s, Len(pre)))

validate_phone_number(value) == value # NoPhone => phone_pattern(value)

NotSeparator(c) == c \notin {" ", "-"}

InvalidPhone == <<"ValidationError">>

validate_mpesa_phone(value) ==
    LET clean == SelectSeq(value, NotSeparator)
        number == IF startswith(clean, <<"0">>) THEN Code254 \o Drop(clean, 1)
                  ELSE IF startswith(clean, <<"+">> \o Code254) THEN Drop(clean, 1)
                  ELSE clean
    IN  IF mpesa_pattern(number) THEN number ELSE InvalidPhone

(* the number stk_push puts in PartyA and PhoneNumber *)
stk_push_phone(phone_number) ==
    LET plain == IF startswith(phone_number, <<"+">>) THEN Drop(phone_number, 1)
                 ELSE phone_number
    IN  IF startswith(plain, <<"0">>) THEN Code254 \o Drop(plain, 1)
        ELSE IF ~startswith(plain, Code254) THEN Code254 \o plain
        ELSE plain

(* ------------------------------ responses ----------------------------- *)
NoResp == [op |-> "none", status |-> 0, body |-> "", log |-> "", items |-> {}, calls |-> 0,
           party |-> NoPhone]

Response(op, st, b, lg) ==
    [op |-> op, status |-> st, body |-> b, log |-> lg, items |-> {}, calls |-> 0,
     party |-> NoPhone]

(* a response sent after one call to the provider's API *)
Called(r) == [r EXCEPT !.calls = 1]

(* a response sent after one STK push to phone_number *)
Pushed(r, phone_number) == [Called(r) EXCEPT !.party = stk_push_phone(phone_number)]

(* ------------------------------- orders ------------------------------- *)
NoOrder == [user |-> "", status |-> "absent", total_amount |-> 0,
            payment_method |-> "", payment_date |-> NoTime, created_at |-> NoTime]

NoItem == [unit_price |-> 0, quantity |-> 0, download_token |-> NoToken,
           download_count |-> 0, download_limit |-> 0, download_expires_at |-> NoTime]

NoPayment == [order |-> NoKey, user |-> "", amount |-> 0, payment_method |-> "",
              status |-> "absent", failure_reason |-> "", external_reference |-> NoCid,
              transaction_id |-> "", processed_at |-> NoTime]

NoMpesa == [present |-> FALSE, checkout_request_id |-> NoCid, merchant_request_id |-> NoCid,
            phone_number |-> NoPhone, amount |-> 0, mpesa_receipt_number |-> "",
            result_code |-> NoCode, result_desc |-> ""]

ItemKeys == OrderIds \X Products

OrderExists(o) == o \in OrderIds /\ orders[o].status # "absent"

ItemExists(k) == items[k] # NoItem

PaymentExists(p) == p \in PaymentIds /\ payments[p].status # "absent"

ItemsOf(o) == {k \in ItemKeys : k[1] = o /\ ItemExists(k)}

RECURSIVE SumTotals(_, _)
SumTotals(its, ks) ==
    IF ks = {} THEN 0
    ELSE LET k == CHOOSE x \in ks : TRUE
         IN its[k].unit_price * its[k].quantity + SumTotals(its, ks \ {k})

calculate_totals(its, o) == SumTotals(its, {k \in ItemKeys : k[1] = o /\ its[k] # NoItem})

can_be_cancelled_NotCancelled(o) == orders[o].status # "cancelled"

can_be_cancelled(o) == orders[o].status \in {"pending", "processing"}

generate_download_link(item, tok) ==
    [item EXCEPT !.download_token = tok, !.download_expires_at = now + DownloadDays]

TokenFor(k, o) ==
    nextToken + Cardinality({j \in ItemsOf(o) : ProductRank(j[2]) < ProductRank(k[2])})

MintFits(o) == nextToken + Cardinality(ItemsOf(o)) - 1 <= MaxTokens

mark_as_paid_orders_DateOnly(o) == [orders EXCEPT ![o].payment_date = now]

mark_as_paid_orders(o) ==
    [orders EXCEPT ![o].status = "paid", ![o].payment_date = now]

mark_as_paid_items(o) ==
    [k \in ItemKeys |->
        IF k \in ItemsOf(o) THEN generate_download_link(items[k], TokenFor(k, o)) ELSE items[k]]

mark_as_paid_emails(o, brokerUp) ==
    IF brokerUp THEN [emails EXCEPT ![o] = @ + 1] ELSE emails

mark_as_paid(o, brokerUp) ==
    /\ MintFits(o)
    /\ orders' = mark_as_paid_orders(o)
    /\ items' = mark_as_paid_items(o)
    /\ nextToken' = nextToken + Cardinality(ItemsOf(o))
    /\ emails' = mark_as_paid_emails(o, brokerUp)

(* --------------------------- orders/views.py -------------------------- *)
PendingOrdersOf(u) == {o \in OrderIds : orders[o].user = u /\ orders[o].status = "pending"}

NewItem(p, q) == [unit_price |-> get_price(p), quantity |-> q, download_token |-> NoToken,
                  download_count |-> 0, download_limit |-> DownloadLimitDefault,
                  download_expires_at |-> NoTime]

quick_checkout(u, p, q) ==
    /\ Cardinality(PendingOrdersOf(u)) <= 1
    /\ PendingOrdersOf(u) = {} => nextOrder <= MaxOrders
    /\ LET created == PendingOrdersOf(u) = {}
           o == IF created THEN nextOrder ELSE CHOOSE x \in PendingOrdersOf(u) : TRUE
           k == <<o, p>>
           its == [items EXCEPT ![k] = IF ItemExists(k) THEN [@ EXCEPT !.quantity = q]
                                                        ELSE NewItem(p, q)]
           base == IF created THEN [NoOrder EXCEPT !.user = u, !.status = "pending",
                                                   !.created_at = now]
                              ELSE orders[o]
       IN /\ items' = its
          /\ orders' = [orders EXCEPT ![o] = [base EXCEPT !.total_amount = calculate_totals(its, o)]]
          /\ nextOrder' = IF created THEN nextOrder + 1 ELSE nextOrder
          /\ resp' = Response("quick_checkout", 201, "order", "")
    /\ UNCHANGED <<payments, mpesa, emails, logs, reqs, productDownloads, files, now,
                   nextPayment, nextCid, nextToken>>

FreeOrderFound(u, o) ==
    /\ OrderExists(o)
    /\ orders[o].user = u
    /\ orders[o].status = "pending"

(* the atomic block and what follows it; order is the row the view read *)
free_order_settle(order, o, brokerUp) ==
    /\ MintFits(o)
    /\ orders' = [orders EXCEPT ![o] = [order EXCEPT !.status = "paid",
                                                     !.payment_method = "free",
                                                     !.payment_date = now]]
    /\ items' = mark_as_paid_items(o)
    /\ nextToken' = nextToken + Cardinality(ItemsOf(o))
    /\ productDownloads' = [p \in Products |->
           IF <<o, p>> \in ItemsOf(o) THEN productDownloads[p] + 1 ELSE productDownloads[p]]
    /\ emails' = mark_as_paid_emails(o, brokerUp)
    /\ resp' = IF brokerUp
               THEN Response("process_free_order", 200, "Order processed successfully", "")
               ELSE Response("process_free_order", 500, "Failed to process order", "Error processing free order")
    /\ UNCHANGED <<payments, mpesa, logs, files, now, nextOrder, nextPayment, nextCid>>

process_free_order(u, o, brokerUp) ==
    IF ~FreeOrderFound(u, o)
    THEN /\ resp' = Response("process_free_order", 500, "Failed to process order", "Error processing free order")
         /\ UNCHANGED <<orders, items, payments, mpesa, emails, logs, reqs, productDownloads,
                        files, now, nextOrder, nextPayment, nextCid, nextToken>>
    ELSE IF orders[o].total_amount > 0
    THEN /\ resp' = Response("process_free_order", 400, "This order requires payment", "")
         /\ UNCHANGED <<orders, items, payments, mpesa, emails, logs, reqs, productDownloads,
                        files, now, nextOrder, nextPayment, nextCid, nextToken>>
    ELSE /\ free_order_settle(orders[o], o, brokerUp)
         /\ UNCHANGED reqs

(* payments/serializers.py: PaymentInitiateSerializer.validate_order_id *)
validate_order_id(o) == OrderExists(o) /\ orders[o].status = "pending"

NewPayment(u, o, method) ==
    [NoPayment EXCEPT !.order = o, !.user = u, !.amount = orders[o].total_amount,
                      !.payment_method = method, !.status = "pending"]

NewMpesa(o, phone_number) ==
    [NoMpesa EXCEPT !.present = TRUE, !.phone_number = phone_number,
                    !.amount = orders[o].total_amount]

StkOutcomes == {"accepted", "rejected", "raise"}

(* handle_mpesa_payment: the payment row after the STK push returned `out` *)
handle_mpesa_payment_row(pay, out) ==
    CASE out = "accepted" -> [pay EXCEPT !.external_reference = nextCid, !.status = "processing"]
      [] out = "rejected" -> [pay EXCEPT !.external_reference = NoCid, !.status = "failed",
                                         !.failure_reason = "Unknown error"]
      [] OTHER -> [pay EXCEPT !.status = "failed", !.failure_reason = "exception"]

StkLog(out, msg) == IF out = "raise" THEN msg ELSE ""

StkStatus(out) == CASE out = "accepted" -> 200 [] out = "rejected" -> 400 [] OTHER -> 500

initiate_payment_phone(u, o, method, phone_number, out) ==
    IF ~validate_order_id(o) \/ ~validate_phone_number(phone_number)
    THEN /\ resp' = Response("initiate_payment", 400, "Invalid data", "")
         /\ UNCHANGED <<orders, items, payments, mpesa, emails, logs, reqs, productDownloads,
                        files, now, nextOrder, nextPayment, nextCid, nextToken>>
    ELSE IF orders[o].user # u
    THEN /\ resp' = Response("initiate_payment", 404, "Order not found", "")
         /\ UNCHANGED <<orders, items, payments, mpesa, emails, logs, reqs, productDownloads,
                        files, now, nextOrder, nextPayment, nextCid, nextToken>>
    ELSE /\ nextPayment <= MaxPayments
         /\ (out = "accepted" /\ phone_number # NoPhone) => nextCid <= MaxCids
         /\ LET pid == nextPayment IN
            IF method = "mpesa" /\ phone_number = NoPhone
            THEN /\ payments' = [payments EXCEPT ![pid] =
                                    handle_mpesa_payment_row(NewPayment(u, o, method), "raise")]
                 /\ UNCHANGED <<mpesa, nextCid>>
                 /\ resp' = Response("initiate_payment", StkStatus("raise"), "raise",
                                     StkLog("raise", "Error handling M-Pesa payment"))
            ELSE IF method = "mpesa"
            THEN /\ payments' = [payments EXCEPT ![pid] =
                                    handle_mpesa_payment_row(NewPayment(u, o, method), out)]
                 /\ mpesa' = [mpesa EXCEPT ![pid] =
                                 IF out = "accepted"
                                 THEN [NewMpesa(o, phone_number)
                                          EXCEPT !.checkout_request_id = nextCid,
                                                 !.merchant_request_id = nextCid]
                                 ELSE NewMpesa(o, phone_number)]
                 /\ nextCid' = IF out = "accepted" THEN nextCid + 1 ELSE nextCid
                 /\ resp' = Pushed(Response("initiate_payment", StkStatus(out), out,
                                            StkLog(out, "Error handling M-Pesa payment")),
                                   phone_number)
            ELSE /\ payments' = [payments EXCEPT ![pid] = NewPayment(u, o, method)]
                 /\ UNCHANGED <<mpesa, nextCid>>
                 /\ resp' = Response("initiate_payment", 400, "Payment method not supported", "")
         /\ nextPayment' = nextPayment + 1
         /\ UNCHANGED <<orders, items, emails, logs, reqs, productDownloads, files, now,
                        nextOrder, nextToken>>

initiate_payment(u, o, method, out) == initiate_payment_phone(u, o, method, DefaultPhone, out)

cancel_order(u, o) ==
    IF ~(OrderExists(o) /\ orders[o].user = u)
    THEN /\ resp' = Response("cancel_order", 500, "Failed to cancel order", "Error cancelling order")
         /\ UNCHANGED <<orders, items, payments, mpesa, emails, logs, reqs, productDownloads,
                        files, now, nextOrder, nextPayment, nextCid, nextToken>>
    ELSE IF ~can_be_cancelled(o)
    THEN /\ resp' = Response("cancel_order", 400, "Order cannot be cancelled", "")
         /\ UNCHANGED <<orders, items, payments, mpesa, emails, logs, reqs, productDownloads,
                        files, now, nextOrder, nextPayment, nextCid, nextToken>>
    ELSE /\ orders' = [orders EXCEPT ![o].status = "cancelled"]
         /\ resp' = Response("cancel_order", 200, "cancelled", "")
         /\ UNCHANGED <<items, payments, mpesa, emails, logs, reqs, productDownloads,
                        files, now, nextOrder, nextPayment, nextCid, nextToken>>

(* -------------------------- payments/views.py ------------------------- *)
MpesaByCheckoutId(cid) ==
    {p \in PaymentIds : mpesa[p].present /\ mpesa[p].checkout_request_id = cid}

ResultCodes == {0, 1, 1032, 1037}

ResultDesc(rc) == IF rc = 0 THEN "processed" ELSE IF rc = 1032 THEN "cancelled by user"
                  ELSE IF rc = 1037 THEN "timeout" ELSE "insufficient balance"

Receipt == "RCPT"

CallbackUnchanged ==
    UNCHANGED <<orders, items, payments, mpesa, emails, logs, reqs, productDownloads,
                files, now, nextOrder, nextPayment, nextCid, nextToken>>

CallbackAck == "OK"

LogNoCheckoutId == "No CheckoutRequestID in callback"

LogNotFound == "M-Pesa payment not found for CheckoutRequestID"

LogPaid == "Payment successful for order"

LogFailed == "Payment failed for order"

LogCallbackError == "Error processing M-Pesa callback"

CallbackError == "ERROR"

MissingCheckoutId_Never(cid) == FALSE

MissingCheckoutId(cid) == cid = NoCid

mpesa_callback(parses, cid, rc, hasReceipt, brokerUp) ==
    IF ~parses
    THEN /\ resp' = Response("mpesa_callback", 200, CallbackError, LogCallbackError)
         /\ CallbackUnchanged
    ELSE IF MissingCheckoutId(cid)
    THEN /\ resp' = Response("mpesa_callback", 200, CallbackAck, LogNoCheckoutId)
         /\ CallbackUnchanged
    ELSE IF MpesaByCheckoutId(cid) = {}
    THEN /\ resp' = Response("mpesa_callback", 200, CallbackAck, LogNotFound)
         /\ CallbackUnchanged
    ELSE IF Cardinality(MpesaByCheckoutId(cid)) > 1
    THEN /\ resp' = Response("mpesa_callback", 200, CallbackError, LogCallbackError)
         /\ CallbackUnchanged
    ELSE LET p == CHOOSE x \in MpesaByCheckoutId(cid) : TRUE
             receipt == IF hasReceipt THEN Receipt ELSE mpesa[p].mpesa_receipt_number
             row == [mpesa[p] EXCEPT !.result_code = rc, !.result_desc = ResultDesc(rc),
                                     !.mpesa_receipt_number = receipt]
         IN IF rc = 0
            THEN /\ payments' = [payments EXCEPT ![p].status = "completed",
                                                 ![p].transaction_id = receipt,
                                                 ![p].processed_at = now]
                 /\ mark_as_paid(payments[p].order, brokerUp)
                 /\ mpesa' = IF brokerUp THEN [mpesa EXCEPT ![p] = row] ELSE mpesa
                 /\ resp' = IF brokerUp
                            THEN Response("mpesa_callback", 200, CallbackAck, LogPaid)
                            ELSE Response("mpesa_callback", 200, CallbackError, LogCallbackError)
                 /\ UNCHANGED <<logs, reqs, productDownloads, files, now, nextOrder,
                                nextPayment, nextCid>>
            ELSE /\ payments' = [payments EXCEPT ![p].status = "failed",
                                                 ![p].failure_reason = ResultDesc(rc)]
                 /\ mpesa' = [mpesa EXCEPT ![p].result_code = rc,
                                           ![p].result_desc = ResultDesc(rc)]
                 /\ resp' = Response("mpesa_callback", 200, CallbackAck, LogFailed)
                 /\ UNCHANGED <<orders, items, emails, logs, reqs, productDownloads, files,
                                now, nextOrder, nextPayment, nextCid, nextToken>>

PaymentFound_AnyUser(u, pid) == PaymentExists(pid)

PaymentFound(u, pid) == PaymentExists(pid) /\ payments[pid].user = u

CanRetry_NotCompleted(pid) == payments[pid].status # "completed"

(* payment.status in ['failed', 'cancelled'] *)
CanRetry(pid) == payments[pid].status \in {"failed", "cancelled"}

retry_payment(u, pid, out) ==
    IF ~PaymentFound(u, pid)
    THEN /\ resp' = Response("retry_payment", 500, "Failed to retry payment", "Error retrying payment")
         /\ CallbackUnchanged
    ELSE IF ~CanRetry(pid)
    THEN /\ resp' = Response("retry_payment", 400, "Payment cannot be retried", "")
         /\ CallbackUnchanged
    ELSE LET reset == [payments[pid] EXCEPT !.status = "pending", !.failure_reason = ""] IN
         IF payments[pid].payment_method = "mpesa" /\ mpesa[pid].present
         THEN /\ out = "accepted" => nextCid <= MaxCids
              /\ payments' = [payments EXCEPT ![pid] =
                    CASE out = "accepted" -> [reset EXCEPT !.external_reference = nextCid,
                                                           !.status = "processing"]
                      [] out = "rejected" -> [reset EXCEPT !.external_reference = NoCid,
                                                           !.status = "failed",
                                                           !.failure_reason = "Unknown error"]
                      [] OTHER -> reset]
              /\ mpesa' = CASE out = "accepted" ->
                                 [mpesa EXCEPT ![pid].checkout_request_id = nextCid,
                                               ![pid].merchant_request_id = nextCid,
                                               ![pid].result_code = NoCode,
                                               ![pid].result_desc = ""]
                            [] out = "rejected" ->
                                 [mpesa EXCEPT ![pid].checkout_request_id = NoCid,
                                               ![pid].merchant_request_id = NoCid,
                                               ![pid].result_code = NoCode,
                                               ![pid].result_desc = ""]
                            [] OTHER -> mpesa
              /\ nextCid' = IF out = "accepted" THEN nextCid + 1 ELSE nextCid
              /\ resp' = Pushed(Response("retry_payment", StkStatus(out), out,
                                         StkLog(out, "Error retrying payment")),
                                mpesa[pid].phone_number)
              /\ UNCHANGED <<orders, items, emails, logs, reqs, productDownloads, files, now,
                             nextOrder, nextPayment, nextToken>>
         ELSE /\ payments' = [payments EXCEPT ![pid] = reset]
              /\ resp' = Response("retry_payment", 200, "Payment reset successfully", "")
              /\ UNCHANGED <<orders, items, mpesa, emails, logs, reqs, productDownloads, files,
                             now, nextOrder, nextPayment, nextCid, nextToken>>

(* --------------------- orders/views.py: payment_status ---------------- *)
PollResults == {"0", "1", "1032", "1037", "raise"}

NeedsQuery_Open(pid) == payments[pid].status \in {"pending", "processing"} /\ mpesa[pid].present

(* payment.status == 'processing' and hasattr(payment, 'mpesa_payment') *)
NeedsQuery(pid) == payments[pid].status = "processing" /\ mpesa[pid].present

(* the download URLs of the response: one per item of the order that has a token *)
download_items(pays, ords, its, pid) ==
    IF pays[pid].status = "completed" /\ ords[pays[pid].order].status = "paid"
    THEN {its[k].download_token :
             k \in {j \in ItemKeys : j[1] = pays[pid].order /\ its[j] # NoItem}} \ {NoToken}
    ELSE {}

payment_status(u, pid, q, brokerUp) ==
    IF ~PaymentFound(u, pid)
    THEN /\ resp' = Response("payment_status", 404, "Not found", "")
         /\ CallbackUnchanged
    ELSE IF NeedsQuery(pid) /\ q = "0"
    THEN /\ payments' = [payments EXCEPT ![pid].status = "completed",
                                         ![pid].processed_at = now]
         /\ mark_as_paid(payments[pid].order, brokerUp)
         /\ resp' = [Called(Response("payment_status", 200, "completed",
                                     IF brokerUp THEN "" ELSE "Error querying payment status"))
                       EXCEPT !.items = download_items(payments', orders', items', pid)]
         /\ UNCHANGED <<mpesa, logs, reqs, productDownloads, files, now, nextOrder,
                        nextPayment, nextCid>>
    ELSE IF NeedsQuery(pid) /\ q \in {"1032", "1037"}
    THEN /\ payments' = [payments EXCEPT ![pid].status = "cancelled",
                                         ![pid].failure_reason = "cancelled by user"]
         /\ resp' = Called(Response("payment_status", 200, "cancelled", ""))
         /\ UNCHANGED <<orders, items, mpesa, emails, logs, reqs, productDownloads, files,
                        now, nextOrder, nextPayment, nextCid, nextToken>>
    ELSE /\ resp' = [Response("payment_status", 200, payments[pid].status,
                              IF NeedsQuery(pid) /\ q = "raise"
                              THEN "Error querying payment status" ELSE "")
                       EXCEPT !.items = download_items(payments, orders, items, pid),
                              !.calls = IF NeedsQuery(pid) THEN 1 ELSE 0]
         /\ CallbackUnchanged

(* ------------------------- orders/admin.py ---------------------------- *)
admin_refund(o) ==
    /\ OrderExists(o)
    /\ orders[o].status = "paid"
    /\ orders' = [orders EXCEPT ![o].status = "refunded"]
    /\ resp' = NoResp
    /\ UNCHANGED <<items, payments, mpesa, emails, logs, reqs, productDownloads, files, now,
                   nextOrder, nextPayment, nextCid, nextToken>>

(* ------------------------- product file storage ---------------------- *)
storage_remove(p) ==
    /\ p \in files
    /\ files' = files \ {p}
    /\ resp' = NoResp
    /\ UNCHANGED <<orders, items, payments, mpesa, emails, logs, reqs, productDownloads,
                   now, nextOrder, nextPayment, nextCid, nextToken>>

(* ------------------------------ the clock ----------------------------- *)
Tick(d) ==
    /\ now + d <= MaxNow
    /\ now' = now + d
    /\ resp' = NoResp
    /\ UNCHANGED <<orders, items, payments, mpesa, emails, logs, reqs, productDownloads,
                   files, nextOrder, nextPayment, nextCid, nextToken>>

(* ------------- orders/tasks.py: cleanup_expired_orders ---------------- *)
(* timedelta(hours=24), in the days that now counts *)
ExpiryDays == 1

expired_orders ==
    {o \in OrderIds : orders[o].status = "pending" /\ orders[o].created_at < now - ExpiryDays}

(* Order.delete cascades to its items, its payments and their M-Pesa rows *)
cleanup_expired_orders ==
    /\ orders' = [o \in OrderIds |-> IF o \in expired_orders THEN NoOrder ELSE orders[o]]
    /\ items' = [k \in ItemKeys |-> IF k[1] \in expired_orders THEN NoItem ELSE items[k]]
    /\ payments' = [p \in PaymentIds |->
                       IF payments[p].order \in expired_orders THEN NoPayment ELSE payments[p]]
    /\ mpesa' = [p \in PaymentIds |->
                    IF payments[p].order \in expired_orders THEN NoMpesa ELSE mpesa[p]]
    /\ resp' = Response("cleanup_expired_orders", 0, "",
                        "Cleaned up expired pending orders")
    /\ UNCHANGED <<emails, logs, reqs, productDownloads, files, now, nextOrder,
                   nextPayment, nextCid, nextToken>>

(* --------------------- orders/utils.py: download_file ----------------- *)
(* what is_suspicious_request reads of a request: ua_info's is_bot,        *)
(* browser_family and raw_string (its length, and whether its lower-case   *)
(* form contains a headless indicator), and the Accept-Language header     *)
DefaultMeta == [is_bot |-> FALSE, raw_len |-> 120, headless |-> FALSE,
                browser_family |-> "Chrome", accept_language |-> TRUE]

BrowserFamilies == {"Chrome", "Internet Explorer", "Other", "Unknown"}

RawLengths == {0, 9, 120}

AllMeta ==
    {m \in [is_bot : BOOLEAN, raw_len : RawLengths, headless : BOOLEAN,
            browser_family : BrowserFamilies, accept_language : BOOLEAN] :
        m.raw_len = 0 => (~m.is_bot /\ ~m.headless)}

IndicatorOrder == <<"detected_bot", "minimal_user_agent", "outdated_browser",
                    "unknown_browser", "no_accept_language", "headless_browser">>

Fires(m, indicator) ==
    CASE indicator = "detected_bot" -> m.is_bot
      [] indicator = "minimal_user_agent" -> m.raw_len = 0 \/ m.raw_len < 10
      [] indicator = "outdated_browser" -> m.browser_family = "Internet Explorer"
      [] indicator = "unknown_browser" -> m.browser_family \in {"Other", "Unknown"}
      [] indicator = "no_accept_language" -> ~m.accept_language
      [] indicator = "headless_browser" -> m.headless

RECURSIVE suspicious_indicators(_, _)
suspicious_indicators(m, i) ==
    IF i > Len(IndicatorOrder) THEN <<>>
    ELSE (IF Fires(m, IndicatorOrder[i]) THEN <<IndicatorOrder[i]>> ELSE <<>>)
             \o suspicious_indicators(m, i + 1)

NotMinimal(indicator) == indicator # "minimal_user_agent"

is_suspicious_request_NoMinimal(m) ==
    LET found == SelectSeq(suspicious_indicators(m, 1), NotMinimal)
    IN  [is_suspicious |-> Len(found) > 0, risk_score |-> Len(found), indicators |-> found]

is_suspicious_request(m) ==
    LET found == suspicious_indicators(m, 1)
    IN  [is_suspicious |-> Len(found) > 0, risk_score |-> Len(found), indicators |-> found]

NoCheck == [is_suspicious |-> FALSE, risk_score |-> 0, indicators |-> <<>>]

security_check_blocks_HighRisk(security_check) == security_check.risk_score > 2

(* a risk_score above 2 is logged as a warning and the request goes on *)
security_check_blocks(security_check) == FALSE

IdleReq == [pc |-> "idle", user |-> "", item |-> <<0, "">>, count |-> 0,
            client_info |-> DefaultMeta, security_check |-> NoCheck]

FileSize(p) == IF p = "p1" THEN 10 ELSE 20

NoSize == -1

can_download_NoLimit(item) ==
    /\ item.download_token # NoToken
    /\ ~(item.download_expires_at # NoTime /\ now > item.download_expires_at)

can_download(item) ==
    /\ item.download_token # NoToken
    /\ ~(item.download_expires_at # NoTime /\ now > item.download_expires_at)
    /\ item.download_count < item.download_limit

increment_download(item, seen) == [item EXCEPT !.download_count = seen + 1]

ValidateToken(tok, u) ==
    {k \in ItemKeys : /\ ItemExists(k)
                      /\ items[k].download_token = tok
                      /\ orders[k[1]].user = u
                      /\ orders[k[1]].status = "paid"}

LogRow(u, k, st, size, msg) ==
    [user |-> u, item |-> k, download_status |-> st, file_size |-> size,
     error_message |-> msg]

ClientLogRow(row, m, security_check) ==
    row @@ [is_bot |-> m.is_bot, is_suspicious |-> security_check.is_suspicious]

FileExists_Always(p) == TRUE

(* os.path.exists(file_path) *)
FileExists(p) == p \in files


DownloadUnchanged ==
    UNCHANGED <<orders, payments, mpesa, emails, files, now, nextOrder, nextPayment,
                nextCid, nextToken>>

FreeSlot == CHOOSE s \in Slots : reqs[s].pc = "idle" /\ \A t \in Slots : reqs[t].pc = "idle" => s <= t

InFlight == Cardinality({s \in Slots : reqs[s].pc # "idle"})

download_file_read(s, u, tok, m) ==
    /\ reqs[s].pc = "idle"
    /\ s = FreeSlot
    /\ Len(logs) + InFlight < MaxLogs
    /\ DownloadUnchanged
    /\ IF Cardinality(ValidateToken(tok, u)) # 1
       THEN /\ resp' = Response("download_file", 500, "Download failed", "Error downloading file")
            /\ UNCHANGED <<items, logs, reqs, productDownloads>>
       ELSE LET k == CHOOSE x \in ValidateToken(tok, u) : TRUE
                item == items[k]
                security_check == is_suspicious_request(m)
            IN IF ~can_download(item)
               THEN /\ logs' = Append(logs, ClientLogRow(
                                  IF item.download_count >= item.download_limit
                                  THEN LogRow(u, k, "limit_exceeded", NoSize,
                                              "Download limit exceeded")
                                  ELSE LogRow(u, k, "expired", NoSize,
                                              "Download link expired"),
                                  m, security_check))
                    /\ resp' = Response("download_file", 410, "expired or exceeded limit", "")
                    /\ UNCHANGED <<items, reqs, productDownloads>>
               ELSE IF security_check_blocks(security_check)
               THEN /\ resp' = Response("download_file", 403, "Verification required", "")
                    /\ UNCHANGED <<items, logs, reqs, productDownloads>>
               ELSE IF ~FileExists(k[2])
               THEN /\ logs' = Append(logs, ClientLogRow(
                                  LogRow(u, k, "failed", NoSize, "File not found on server"),
                                  m, security_check))
                    /\ resp' = Response("download_file", 404, "File not found", "")
                    /\ UNCHANGED <<items, reqs, productDownloads>>
               ELSE /\ reqs' = [reqs EXCEPT ![s] = [pc |-> "serve", user |-> u, item |-> k,
                                                    count |-> item.download_count,
                                                    client_info |-> m,
                                                    security_check |-> security_check]]
                    /\ resp' = NoResp
                    /\ UNCHANGED <<items, logs, productDownloads>>

download_read(s, u, tok) == download_file_read(s, u, tok, DefaultMeta)

download_serve(s) ==
    /\ reqs[s].pc = "serve"
    /\ LET k == reqs[s].item IN
       /\ items' = [items EXCEPT ![k] = increment_download(@, reqs[s].count)]
       /\ productDownloads' = [productDownloads EXCEPT ![k[2]] = @ + 1]
       /\ IF FileExists(k[2])
          THEN /\ logs' = Append(logs, ClientLogRow(
                             LogRow(reqs[s].user, k, "success", FileSize(k[2]), ""),
                             reqs[s].client_info, reqs[s].security_check))
               /\ resp' = Response("download_file", 200, "file", "")
          ELSE /\ logs' = logs
               /\ resp' = Response("download_file", 500, "Download failed",
                                   "Error downloading file")
    /\ reqs' = [reqs EXCEPT ![s] = IdleReq]
    /\ DownloadUnchanged

(* process_free_order as two steps of one request: the lookup and the     *)
(* total check, then the atomic block on the row that was read             *)
process_free_order_read(s, u, o) ==
    /\ reqs[s].pc = "idle"
    /\ s = FreeSlot
    /\ UNCHANGED <<orders, items, payments, mpesa, emails, logs, productDownloads, files, now,
                   nextOrder, nextPayment, nextCid, nextToken>>
    /\ IF ~FreeOrderFound(u, o)
       THEN /\ resp' = Response("process_free_order", 500, "Failed to process order",
                                "Error processing free order")
            /\ UNCHANGED reqs
       ELSE IF orders[o].total_amount > 0
       THEN /\ resp' = Response("process_free_order", 400, "This order requires payment", "")
            /\ UNCHANGED reqs
       ELSE /\ reqs' = [reqs EXCEPT ![s] = [IdleReq EXCEPT !.pc = "settle", !.user = u,
                                                          !.item = <<o, "">>,
                                                          !.count = orders[o].total_amount]]
            /\ resp' = NoResp

process_free_order_settle(s, brokerUp) ==
    /\ reqs[s].pc = "settle"
    /\ LET o == reqs[s].item[1]
       IN  free_order_settle([orders[o] EXCEPT !.total_amount = reqs[s].count], o, brokerUp)
    /\ reqs' = [reqs EXCEPT ![s] = IdleReq]

(* -------------------------------- Init -------------------------------- *)
Init ==
    /\ orders = [o \in OrderIds |-> NoOrder]
    /\ items = [k \in ItemKeys |-> NoItem]
    /\ payments = [p \in PaymentIds |-> NoPayment]
    /\ mpesa = [p \in PaymentIds |-> NoMpesa]
    /\ emails = [o \in OrderIds |-> 0]
    /\ logs = <<>>
    /\ reqs = [s \in Slots |-> IdleReq]
    /\ productDownloads = [p \in Products |-> 0]
    /\ files = Products
    /\ now = 0
    /\ nextOrder = 1
    /\ nextPayment = 1
    /\ nextCid = 1
    /\ nextToken = 1
    /\ resp = NoResp

(* ----------------------- inputs of the requests ----------------------- *)
Methods == {"mpesa"}
StkInputs == {"accepted", "raise"}
CallbackCodes == {0, 1}
ReceiptInputs == {TRUE}
BrokerInputs == {TRUE}
PollInputs == {"0", "1032", "raise"}
CidInputs == 0..MaxCids + 1
TokenInputs == 1..MaxTokens

(* The payment reconciliation engine, from an empty database. *)
Next ==
    \/ \E u \in Buyers, p \in Products, q \in Quantities : quick_checkout(u, p, q)
    \/ \E u \in Users, o \in OrderIds, b \in BrokerInputs : process_free_order(u, o, b)
    \/ \E u \in Users, o \in OrderIds, m \in Methods, out \in StkInputs :
          initiate_payment(u, o, m, out)
    \/ \E u \in Users, o \in OrderIds : cancel_order(u, o)
    \/ \E parses \in BOOLEAN, cid \in CidInputs, rc \in CallbackCodes,
          hasReceipt \in ReceiptInputs, b \in BrokerInputs :
          mpesa_callback(parses, cid, rc, hasReceipt, b)
    \/ \E u \in Users, pid \in PaymentIds, out \in StkInputs : retry_payment(u, pid, out)
    \/ \E u \in Users, pid \in PaymentIds, q \in PollInputs, b \in BrokerInputs :
          payment_status(u, pid, q, b)
    \/ \E o \in OrderIds : admin_refund(o)

Spec == Init /\ [][Next]_vars

(* The download gateway, from the state in which u1's order of p1 has just *)
(* been settled by a success callback at time 0.                           *)
SettledOrder == [user |-> "u1", status |-> "paid", total_amount |-> get_price("p1"),
                 payment_method |-> "", payment_date |-> 0, created_at |-> 0]

SettledItem == [NewItem("p1", 1) EXCEPT !.download_token = 1,
                                         !.download_expires_at = DownloadDays]

SettledPayment == [order |-> 1, user |-> "u1", amount |-> get_price("p1"),
                   payment_method |-> "mpesa", status |-> "completed",
                   failure_reason |-> "", external_reference |-> 1,
                   transaction_id |-> Receipt, processed_at |-> 0]

SettledMpesa == [present |-> TRUE, checkout_request_id |-> 1, merchant_request_id |-> 1,
                 phone_number |-> DefaultPhone, amount |-> get_price("p1"),
                 mpesa_receipt_number |-> Receipt, result_code |-> 0,
                 result_desc |-> ResultDesc(0)]

Settled ==
    /\ orders = [o \in OrderIds |-> IF o = 1 THEN SettledOrder ELSE NoOrder]
    /\ items = [k \in ItemKeys |-> IF k = <<1, "p1">> THEN SettledItem ELSE NoItem]
    /\ payments = [p \in PaymentIds |-> IF p = 1 THEN SettledPayment ELSE NoPayment]
    /\ mpesa = [p \in PaymentIds |-> IF p = 1 THEN SettledMpesa ELSE NoMpesa]
    /\ emails = [o \in OrderIds |-> IF o = 1 THEN 1 ELSE 0]
    /\ logs = <<>>
    /\ reqs = [s \in Slots |-> IdleReq]
    /\ productDownloads = [p \in Products |-> 0]
    /\ files = Products
    /\ now = 0
    /\ nextOrder = 2
    /\ nextPayment = 2
    /\ nextCid = 2
    /\ nextToken = 2
    /\ resp = Response("mpesa_callback", 200, CallbackAck, LogPaid)

InitDl == Settled

NextDl ==
    \/ \E s \in Slots, u \in Users, tok \in TokenInputs :
          download_read(s, u, tok)
    \/ \E s \in Slots : download_serve(s)
    \/ \E d \in {DownloadDays, DownloadDays + 1} : Tick(d)
    \/ \E rc \in {0}, b \in BrokerInputs : mpesa_callback(TRUE, 1, rc, TRUE, b)
    \/ \E o \in OrderIds : admin_refund(o)
    \/ \E p \in {"p1"} : storage_remove(p)

SpecDl == InitDl /\ [][NextDl]_vars

(* The payment attempts of one order, from the state in which u1 has just  *)
(* checked out p1, with every provider outcome.                            *)
PendingOrder == [NoOrder EXCEPT !.user = "u1", !.status = "pending",
                                !.total_amount = get_price("p1"), !.created_at = 0]

Pending ==
    /\ orders = [o \in OrderIds |-> IF o = 1 THEN PendingOrder ELSE NoOrder]
    /\ items = [k \in ItemKeys |-> IF k = <<1, "p1">> THEN NewItem("p1", 1) ELSE NoItem]
    /\ payments = [p \in PaymentIds |-> NoPayment]
    /\ mpesa = [p \in PaymentIds |-> NoMpesa]
    /\ emails = [o \in OrderIds |-> 0]
    /\ logs = <<>>
    /\ reqs = [s \in Slots |-> IdleReq]
    /\ productDownloads = [p \in Products |-> 0]
    /\ files = Products
    /\ now = 0
    /\ nextOrder = 2
    /\ nextPayment = 1
    /\ nextCid = 1
    /\ nextToken = 1
    /\ resp = Response("quick_checkout", 201, "order", "")

InitPay == Pending

NextPay ==
    \/ \E u \in Buyers, o \in OrderIds, m \in Methods, out \in StkOutcomes :
          initiate_payment(u, o, m, out)
    \/ \E u \in Buyers, pid \in PaymentIds, out \in StkOutcomes : retry_payment(u, pid, out)
    \/ \E cid \in 1..MaxCids, rc \in ResultCodes, b \in BOOLEAN :
          mpesa_callback(TRUE, cid, rc, TRUE, b)
    \/ \E u \in Buyers, pid \in PaymentIds, q \in PollResults, b \in BOOLEAN :
          payment_status(u, pid, q, b)
    \/ \E u \in Buyers, o \in OrderIds : cancel_order(u, o)

SpecPay == InitPay /\ [][NextPay]_vars

(* ---- payments started and retried with phone numbers of every form ---- *)
PhonePrefixes == {<<"0">>, <<"+">> \o Code254, Code254, <<>>, <<"2", "5", "5">>}

PhoneHeads == {"7", "1", "8"}

PhoneTail == <<"1", "2", "3", "4", "5", "6", "7", "8">>

(* every prefix with every first digit, one number too short, one with a dash *)
PhoneInputs ==
    {pre \o <<h>> \o PhoneTail : pre \in PhonePrefixes, h \in PhoneHeads}
        \cup {<<"0", "7", "1", "2", "3", "4", "5", "6", "7">>,
              <<"0", "7", "1", "2", "-", "3", "4", "5", "6", "7", "8">>,
              NoPhone}

InitPhone == Pending

NextPhone ==
    \/ \E u \in Buyers, o \in OrderIds, m \in Methods, ph \in PhoneInputs, out \in StkOutcomes :
          initiate_payment_phone(u, o, m, ph, out)
    \/ \E u \in Buyers, pid \in PaymentIds, out \in StkOutcomes : retry_payment(u, pid, out)

SpecPhone == InitPhone /\ [][NextPhone]_vars

(* ---- the daily cleanup while payments are in flight ------------------- *)
InitClean == Pending

NextClean ==
    \/ \E u \in Buyers, o \in OrderIds, m \in Methods, out \in StkInputs :
          initiate_payment(u, o, m, out)
    \/ \E cid \in 1..MaxCids, rc \in CallbackCodes, b \in BrokerInputs :
          mpesa_callback(TRUE, cid, rc, TRUE, b)
    \/ \E d \in {ExpiryDays} : now <= ExpiryDays /\ Tick(d)
    \/ cleanup_expired_orders

SpecClean == InitClean /\ [][NextClean]_vars

(* ---- free orders requested concurrently ------------------------------- *)
InitFree == Init

NextFree ==
    \/ \E u \in Buyers, p \in Products, q \in Quantities : quick_checkout(u, p, q)
    \/ \E s \in Slots, u \in Users, o \in OrderIds : process_free_order_read(s, u, o)
    \/ \E s \in Slots, b \in BOOLEAN : process_free_order_settle(s, b)
    \/ \E u \in Buyers, o \in OrderIds : cancel_order(u, o)
    \/ \E s \in Slots, u \in Buyers, tok \in TokenInputs : download_read(s, u, tok)
    \/ \E s \in Slots : download_serve(s)

SpecFree == InitFree /\ [][NextFree]_vars

(* ---- a cart that is still edited while its payment is in flight ------- *)
CartQuantities == {1, 2}

InitCart == Pending

NextCart ==
    \/ \E u \in Buyers, p \in Products, q \in CartQuantities : quick_checkout(u, p, q)
    \/ \E u \in Buyers, o \in OrderIds, m \in Methods, out \in StkInputs :
          initiate_payment(u, o, m, out)
    \/ \E cid \in 1..MaxCids, rc \in CallbackCodes, b \in BrokerInputs :
          mpesa_callback(TRUE, cid, rc, TRUE, b)

SpecCart == InitCart /\ [][NextCart]_vars

(* ---- downloads of a settled order by clients of every description ---- *)
MaxMetaLogs == 2

(* a plain browser, a request without User-Agent and Accept-Language, and  *)
(* a headless bot without Accept-Language                                  *)
MetaInputs ==
    {DefaultMeta,
     [DefaultMeta EXCEPT !.raw_len = 0, !.browser_family = "Other", !.accept_language = FALSE],
     [DefaultMeta EXCEPT !.is_bot = TRUE, !.headless = TRUE, !.accept_language = FALSE]}

InitMeta == Settled

NextMeta ==
    \/ \E s \in Slots, u \in Buyers, tok \in TokenInputs, m \in MetaInputs :
          Len(logs) + InFlight < MaxMetaLogs /\ download_file_read(s, u, tok, m)
    \/ \E s \in Slots : download_serve(s)
    \/ \E d \in {DownloadDays + 1} : Tick(d)
    \/ \E p \in {"p1"} : storage_remove(p)

SpecMeta == InitMeta /\ [][NextMeta]_vars

(* ============================== claims ================================ *)
Successes(k) == Cardinality({i \in 1..Len(logs) :
                    logs[i].item = k /\ logs[i].download_status = "success"})

(* C1: download_count never exceeds download_limit and, of the requests    *)
(* made against an item, no more succeed than the limit allows (an item    *)
(* starts with download_count = 0, so at most download_limit requests are  *)
(* served), also when requests for the same item overlap.                  *)
C1_ConsumeWithinLimit ==
    \A k \in ItemKeys : ItemExists(k) =>
        /\ items[k].download_count <= items[k].download_limit
        /\ Successes(k) <= items[k].download_limit

(* C2: a download_file request whose token does not match an item of a     *)
(* paid order of the requesting user is answered 404, starts no download   *)
(* and leaves every download_count alone.                                  *)
C2_ForeignTokenNotFound ==
    [][\A s \in Slots, u \in Users, tok \in TokenInputs :
          (ValidateToken(tok, u) = {} /\ download_read(s, u, tok)) =>
              /\ resp'.status = 404
              /\ reqs' = reqs
              /\ items' = items]_vars

(* C3: once an order is paid, processing a paid-transition again changes   *)
(* no download_token and no download_expires_at of its items and enqueues  *)
(* no further confirmation job.                                            *)
C3_MintIdempotent ==
    [][\A o \in OrderIds :
          (orders[o].status = "paid" /\ orders'[o].status = "paid") =>
              /\ \A k \in ItemsOf(o) :
                    /\ items'[k].download_token = items[k].download_token
                    /\ items'[k].download_expires_at = items[k].download_expires_at
              /\ emails'[o] = emails[o]]_vars

(* C4: every download_file invocation that returns a response has written *)
(* exactly one DownloadLog row.                                            *)
C4_OneLogPerDownload ==
    [][resp'.op = "download_file" => Len(logs') = Len(logs) + 1]_vars

Terminal == {"completed", "failed", "cancelled"}

(* C5: a callback or a poll that meets a Payment that already left         *)
(* processing changes neither that Payment's status nor its Order's status.*)
C5_TerminalPaymentKept ==
    [][resp'.op \in {"mpesa_callback", "payment_status"} =>
          \A p \in PaymentIds : payments[p].status \in Terminal =>
              /\ payments'[p].status = payments[p].status
              /\ (payments'[p] # payments[p] \/ mpesa'[p] # mpesa[p]) =>
                    orders'[payments[p].order].status = orders[payments[p].order].status]_vars

CompletedOf(o) == {p \in PaymentIds : payments[p].order = o /\ payments[p].status = "completed"}

(* C6: an order never has more than one completed Payment.                 *)
C6_OneCompletedPayment == \A o \in OrderIds : Cardinality(CompletedOf(o)) <= 1

(* C7: a cancelled, failed or refunded Order keeps its status, and a paid  *)
(* Order changes only to refunded.                                         *)
C7_OrderStatusOneWay ==
    [][\A o \in OrderIds :
          /\ orders[o].status \in {"cancelled", "failed", "refunded"} =>
                orders'[o].status = orders[o].status
          /\ orders[o].status = "paid" => orders'[o].status \in {"paid", "refunded"}]_vars

(* C8: after a callback with result code 0 and a receipt number for a      *)
(* stored checkout id, the Payment is completed, its Order is paid and     *)
(* every item of the Order has a token, download_count 0 and an expiry 30  *)
(* days after the mint.                                                    *)
C8_SuccessCallbackMints ==
    [][\A cid \in CidInputs, b \in BOOLEAN :
          (resp'.op = "mpesa_callback" /\ cid # NoCid /\ mpesa_callback(TRUE, cid, 0, TRUE, b)) =>
              \A p \in PaymentIds :
                  (mpesa[p].present /\ mpesa[p].checkout_request_id = cid) =>
                      /\ payments'[p].status = "completed"
                      /\ orders'[payments[p].order].status = "paid"
                      /\ \A k \in ItemsOf(payments[p].order) :
                            /\ items'[k].download_token # NoToken
                            /\ items'[k].download_count = 0
                            /\ items'[k].download_expires_at = now + DownloadDays]_vars

(* C9: mpesa_callback always answers 200 with the acknowledgement body.    *)
C9_CallbackAlwaysAck ==
    resp.op = "mpesa_callback" => (resp.status = 200 /\ resp.body = CallbackAck)

Unmatched(cid) ==
    cid = NoCid \/ \A p \in PaymentIds :
                      ~(mpesa[p].present /\ mpesa[p].checkout_request_id = cid)

(* C10: a parsed callback whose CheckoutRequestID is missing or matches no *)
(* MPesaPayment is acknowledged with 200 OK and changes no Payment,        *)
(* MPesaPayment, Order or OrderItem.                                       *)
C10_UnknownCallbackDropped ==
    [][\A cid \in CidInputs, rc \in CallbackCodes, h \in ReceiptInputs, b \in BrokerInputs :
          (resp'.op = "mpesa_callback" /\ Unmatched(cid) /\ mpesa_callback(TRUE, cid, rc, h, b)) =>
              /\ UNCHANGED <<orders, items, payments, mpesa>>
              /\ resp'.status = 200
              /\ resp'.body = CallbackAck]_vars

(* A callback without CheckoutRequestID was dropped while a provider row   *)
(* with a blank checkout_request_id is stored.                             *)
C10_Witness ==
    /\ resp.op = "mpesa_callback"
    /\ resp.log = LogNoCheckoutId
    /\ \E p \in PaymentIds : mpesa[p].present /\ mpesa[p].checkout_request_id = NoCid

(* C11: the stored download_count of an order item never decreases, under  *)
(* any interleaving of download_file requests.                             *)
C11_CountMonotone ==
    [][\A k \in ItemKeys :
          ItemExists(k) => items'[k].download_count >= items[k].download_count]_vars

Unconsumable(item) ==
    \/ item.download_token = NoToken
    \/ item.download_expires_at # NoTime /\ now > item.download_expires_at
    \/ item.download_count >= item.download_limit

LastLog(l) == l[Len(l)]

(* C12: a request for an owned, paid item that cannot be consumed (no      *)
(* token, past its expiry, or at its limit) is answered 410, leaves the    *)
(* item unchanged and is logged limit_exceeded when the count has reached  *)
(* the limit and expired otherwise.                                        *)
C12_UnconsumableRejected ==
    [][\A s \in Slots, u \in Users, tok \in TokenInputs :
          (/\ Cardinality(ValidateToken(tok, u)) = 1
           /\ \A k \in ValidateToken(tok, u) : Unconsumable(items[k])
           /\ download_read(s, u, tok)) =>
              /\ resp'.op = "download_file"
              /\ resp'.status = 410
              /\ items' = items
              /\ reqs' = reqs
              /\ Len(logs') = Len(logs) + 1
              /\ \A k \in ValidateToken(tok, u) :
                    /\ LastLog(logs').item = k
                    /\ LastLog(logs').download_status =
                          IF items[k].download_count >= items[k].download_limit
                          THEN "limit_exceeded" ELSE "expired"]_vars

(* a rejected request for an item that is both past its expiry and at its limit *)
C12_Witness ==
    /\ resp.op = "download_file"
    /\ resp.status = 410
    /\ Len(logs) > 0
    /\ LastLog(logs).download_status = "limit_exceeded"
    /\ now > items[LastLog(logs).item].download_expires_at

(* C13: when the entitlement is valid but the product file is absent from  *)
(* storage, download_file answers 404 "File not found" (not the answer to  *)
(* an invalid token), logs download_status failed with the file-not-found  *)
(* message, and does not increment download_count.                         *)
C13_MissingFile ==
    [][\A s \in Slots, u \in Users, tok \in TokenInputs :
          (/\ Cardinality(ValidateToken(tok, u)) = 1
           /\ \A k \in ValidateToken(tok, u) :
                 ~Unconsumable(items[k]) /\ k[2] \notin files
           /\ download_read(s, u, tok)) =>
              /\ resp'.op = "download_file"
              /\ resp'.status = 404
              /\ resp'.body = "File not found"
              /\ resp'.body # "Download failed"
              /\ items' = items
              /\ productDownloads' = productDownloads
              /\ reqs' = reqs
              /\ Len(logs') = Len(logs) + 1
              /\ LastLog(logs').download_status = "failed"
              /\ LastLog(logs').error_message = "File not found on server"]_vars

C13_Witness ==
    /\ resp.op = "download_file"
    /\ resp.status = 404
    /\ "p1" \notin files
    /\ Len(logs) > 0
    /\ LastLog(logs).download_status = "failed"
    /\ items[LastLog(logs).item].download_count > 0

(* C14: a request that reaches the success path (owned paid item,          *)
(* consumable, file present) raises the stored download_count by exactly   *)
(* 1, answers 200 and writes one log with download_status success and the  *)
(* size of the file served.                                                *)
C14_SuccessPath ==
    [][\A s \in Slots :
          (reqs[s].pc = "serve" /\ FileExists(reqs[s].item[2]) /\ download_serve(s)) =>
              /\ items'[reqs[s].item].download_count =
                    items[reqs[s].item].download_count + 1
              /\ resp'.status = 200
              /\ Len(logs') = Len(logs) + 1
              /\ LastLog(logs').download_status = "success"
              /\ LastLog(logs').file_size = FileSize(reqs[s].item[2])]_vars

PollCode(q) == CASE q = "0" -> 0 [] q = "1" -> 1 [] q = "1032" -> 1032 [] OTHER -> 1037

Processing(p) == payments[p].status = "processing" /\ mpesa[p].present

(* C15: for a processing payment and one result code, the poll and the     *)
(* callback leave the payment and the order in the same statuses: the      *)
(* success code gives completed / paid, any other code gives failed.       *)
C15_PollMatchesCallback ==
    [][/\ \A u \in Buyers, pid \in PaymentIds, q \in PollResults \ {"raise"}, b \in BOOLEAN :
             (Processing(pid) /\ payment_status(u, pid, q, b)) =>
                 IF PollCode(q) = 0
                 THEN /\ payments'[pid].status = "completed"
                      /\ orders'[payments[pid].order].status = "paid"
                 ELSE /\ payments'[pid].status = "failed"
                      /\ orders' = orders
       /\ \A cid \in 1..MaxCids, rc \in ResultCodes, b \in BOOLEAN :
             (/\ MpesaByCheckoutId(cid) # {}
              /\ \A p \in MpesaByCheckoutId(cid) : Processing(p)
              /\ mpesa_callback(TRUE, cid, rc, TRUE, b)) =>
                 \A p \in MpesaByCheckoutId(cid) :
                     IF rc = 0
                     THEN /\ payments'[p].status = "completed"
                          /\ orders'[payments[p].order].status = "paid"
                     ELSE /\ payments'[p].status = "failed"
                          /\ orders' = orders]_vars

UserCancelCodes == {1032, 1037}

(* C16: a result code meaning cancelled by the user or timed out (1032,    *)
(* 1037), reported for a processing payment by the poll or by the          *)
(* callback, moves the payment to cancelled, never to failed.              *)
C16_CancelCodesCancel ==
    [][/\ \A u \in Buyers, pid \in PaymentIds, q \in {"1032", "1037"}, b \in BOOLEAN :
             (Processing(pid) /\ payment_status(u, pid, q, b)) =>
                 payments'[pid].status = "cancelled"
       /\ \A cid \in 1..MaxCids, rc \in UserCancelCodes, b \in BOOLEAN :
             (/\ MpesaByCheckoutId(cid) # {}
              /\ \A p \in MpesaByCheckoutId(cid) : Processing(p)
              /\ mpesa_callback(TRUE, cid, rc, TRUE, b)) =>
                 \A p \in MpesaByCheckoutId(cid) : payments'[p].status = "cancelled"]_vars

(* C17: when the STK push made by initiate_payment or retry_payment raises *)
(* (timeout, network error), the payment ends failed with a non-empty      *)
(* failure_reason, never pending or processing.                            *)
C17_ProviderFailureFails ==
    [][/\ \A u \in Buyers, o \in OrderIds, m \in Methods :
             (/\ validate_order_id(o) /\ orders[o].user = u
              /\ initiate_payment(u, o, m, "raise")) =>
                 /\ payments'[nextPayment].status = "failed"
                 /\ payments'[nextPayment].failure_reason # ""
       /\ \A u \in Buyers, pid \in PaymentIds :
             (/\ PaymentFound(u, pid) /\ CanRetry(pid) /\ mpesa[pid].present
              /\ retry_payment(u, pid, "raise")) =>
                 /\ payments'[pid].status = "failed"
                 /\ payments'[pid].failure_reason # ""]_vars

(* C18: an initiation the provider accepts leaves the payment processing   *)
(* with the provider's correlation id stored, and moves the order from     *)
(* pending to processing.                                                  *)
C18_AcceptedMovesOrder ==
    [][\A u \in Buyers, o \in OrderIds, m \in Methods :
          (/\ validate_order_id(o) /\ orders[o].user = u
           /\ initiate_payment(u, o, m, "accepted")) =>
              /\ payments'[nextPayment].status = "processing"
              /\ payments'[nextPayment].external_reference = nextCid
              /\ mpesa'[nextPayment].checkout_request_id = nextCid
              /\ orders'[o].status = "processing"]_vars

(* C19: retry_payment starts a new outbound flow only for a failed or      *)
(* cancelled payment; for the requester's payment in any other status it   *)
(* answers 400 and changes no payment, M-Pesa row, order or item.          *)
C19_RetryOnlyFailed ==
    [][\A u \in Buyers, pid \in PaymentIds, out \in StkOutcomes :
          (/\ resp'.op = "retry_payment"
           /\ PaymentFound(u, pid)
           /\ payments[pid].status \notin {"failed", "cancelled"}
           /\ retry_payment(u, pid, out)) =>
              /\ resp'.status = 400
              /\ UNCHANGED <<orders, items, payments, mpesa, nextCid>>]_vars

C19_Witness ==
    /\ resp.op = "retry_payment"
    /\ resp.status = 400
    /\ \E p \in PaymentIds : payments[p].status = "completed"
    /\ \A p \in PaymentIds : PaymentExists(p) => payments[p].status \notin {"failed", "cancelled"}

(* C20: after retry_payment the previous attempt's checkout and merchant   *)
(* request ids and its result code and description are still stored.       *)
C20_PreviousAttemptKept ==
    [][\A u \in Buyers, pid \in PaymentIds, out \in StkOutcomes :
          (/\ PaymentFound(u, pid) /\ CanRetry(pid) /\ mpesa[pid].present
           /\ mpesa[pid].checkout_request_id # NoCid
           /\ retry_payment(u, pid, out)) =>
              \E p \in PaymentIds :
                  /\ mpesa'[p].present
                  /\ mpesa'[p].checkout_request_id = mpesa[pid].checkout_request_id
                  /\ mpesa'[p].merchant_request_id = mpesa[pid].merchant_request_id
                  /\ mpesa'[p].result_code = mpesa[pid].result_code
                  /\ mpesa'[p].result_desc = mpesa[pid].result_desc]_vars

(* C21: cancel_order sets the requester's order to cancelled exactly when  *)
(* its status is pending or processing; for an order in paid, failed,      *)
(* cancelled or refunded it answers 400 and leaves the order unchanged.    *)
C21_CancelOnlyOpen ==
    [][\A u \in Users, o \in OrderIds :
          (resp'.op = "cancel_order" /\ cancel_order(u, o)) =>
              /\ (OrderExists(o) /\ orders[o].user = u) =>
                    IF orders[o].status \in {"pending", "processing"}
                    THEN /\ orders' = [orders EXCEPT ![o].status = "cancelled"]
                         /\ resp'.status = 200
                    ELSE /\ orders' = orders
                         /\ resp'.status = 400
              /\ orders' # orders => orders[o].status \in {"pending", "processing"}
              /\ UNCHANGED <<items, payments, mpesa>>]_vars

C21_Witness ==
    /\ resp.op = "cancel_order"
    /\ resp.status = 400
    /\ \E o \in OrderIds : orders[o].status = "paid" /\ items[<<o, "p1">>].download_token # NoToken

(* C22: payment_status puts download URLs in its response only when the    *)
(* payment is completed, its order is paid and the payment belongs to the  *)
(* requester; a request for another user's payment is answered not-found,  *)
(* queries the provider not at all and changes no state.                   *)
C22_StatusEntitlements ==
    [][resp'.op = "payment_status" =>
          \A u \in Users, pid \in PaymentIds :
              /\ (/\ resp'.items # {}
                  /\ ~(/\ payments'[pid].user = u
                       /\ payments'[pid].status = "completed"
                       /\ orders'[payments'[pid].order].status = "paid"
                       /\ resp'.items \subseteq
                             {items'[k].download_token : k \in ItemsOf(payments'[pid].order)}))
                    => \A q \in PollInputs, b \in BrokerInputs : ~payment_status(u, pid, q, b)
              /\ (/\ PaymentExists(pid) /\ payments[pid].user # u
                  /\ ~(/\ resp'.status = 404
                       /\ resp'.items = {}
                       /\ resp'.calls = 0
                       /\ UNCHANGED <<orders, items, payments, mpesa, emails>>))
                    => \A q \in PollInputs, b \in BrokerInputs : ~payment_status(u, pid, q, b)]_vars

C22_Witness ==
    /\ resp.op = "payment_status"
    /\ resp.items # {}
    /\ \E p \in PaymentIds : payments[p].status = "completed"

(* C28: payment_status calls the provider and changes state only when the  *)
(* payment it reads is processing and has an M-Pesa row; for a payment in  *)
(* pending, completed, failed, cancelled or refunded it makes no provider  *)
(* call and changes no payment, order or item.                             *)
C28_PollOnlyProcessing ==
    [][resp'.op = "payment_status" =>
          \A u \in Buyers, pid \in PaymentIds :
              (PaymentExists(pid) /\ payments[pid].user = u) =>
                  /\ (/\ ~Processing(pid)
                      /\ ~(/\ resp'.calls = 0
                           /\ UNCHANGED <<orders, items, payments, mpesa, emails>>))
                        => \A q \in PollResults, b \in BOOLEAN : ~payment_status(u, pid, q, b)
                  /\ (Processing(pid) /\ resp'.calls # 1)
                        => \A q \in PollResults, b \in BOOLEAN : ~payment_status(u, pid, q, b)]_vars

C28_Witness ==
    /\ resp.op = "payment_status"
    /\ resp.body = "pending"
    /\ resp.calls = 0
    /\ \E p \in PaymentIds : payments[p].status = "pending" /\ mpesa[p].present

Last9(s) == SubSeq(s, Len(s) - 8, Len(s))

One(b) == IF b THEN 1 ELSE 0

FiringCount(m) ==
    One(m.is_bot) + One(m.raw_len < 10) + One(m.browser_family = "Internet Explorer")
        + One(m.browser_family \in {"Other", "Unknown"}) + One(~m.accept_language)
        + One(m.headless)

ScoreCounts(m, check) ==
    /\ check.risk_score = FiringCount(m)
    /\ check.risk_score = Len(check.indicators)
    /\ check.is_suspicious = (check.risk_score > 0)
    /\ m.raw_len < 10 => (check.is_suspicious /\ check.risk_score >= 1)

(* C24: is_suspicious_request's risk_score is the number of indicators     *)
(* that fire and is_suspicious is risk_score > 0; a user agent that is     *)
(* absent or shorter than 10 characters gives is_suspicious with a         *)
(* risk_score of at least 1.                                               *)
C24_RiskScoreCounts ==
    /\ \A m \in AllMeta : ScoreCounts(m, is_suspicious_request(m))
    /\ \A s \in Slots :
          reqs[s].pc = "serve" => ScoreCounts(reqs[s].client_info, reqs[s].security_check)
    /\ \A i \in 1..Len(logs) :
          logs[i].is_suspicious =>
              \E m \in MetaInputs : m.is_bot = logs[i].is_bot /\ FiringCount(m) > 0

C24_Witness ==
    /\ \E s \in Slots :
          /\ reqs[s].pc = "serve"
          /\ reqs[s].client_info.raw_len = 0
          /\ reqs[s].security_check.risk_score = 3
    /\ \E i \in 1..Len(logs) : logs[i].is_suspicious /\ logs[i].download_status = "success"

(* the statuses of the read step, each with the request's place after it *)
ReadStatuses == {<<0, "serve">>, <<403, "idle">>, <<404, "idle">>, <<410, "idle">>,
                 <<500, "idle">>}

ReadOutcome(s, u, tok, m, st, pc) ==
    ENABLED (/\ download_file_read(s, u, tok, m)
             /\ resp'.status = st
             /\ reqs'[s].pc = pc
             /\ items' = items
             /\ reqs'[s].count = IF pc = "serve" THEN items[<<1, "p1">>].download_count ELSE 0)

ServeOutcome(s) ==
    ENABLED (/\ download_serve(s)
             /\ resp'.status = IF FileExists(reqs[s].item[2]) THEN 200 ELSE 500
             /\ items'[reqs[s].item].download_count = reqs[s].count + 1)

(* C25: the request metadata never changes what download_file answers or   *)
(* what it does to download_count: from any state, a request with any      *)
(* metadata gets the status, and leaves the item and the pending serve,    *)
(* that the same request with plain metadata gets.                         *)
C25_SuspicionIsSoft ==
    /\ \A s \in Slots, u \in Buyers, tok \in TokenInputs, r \in ReadStatuses :
           reqs[s].pc = "idle" =>
               IF ReadOutcome(s, u, tok, DefaultMeta, r[1], r[2])
               THEN \A m \in MetaInputs \ {DefaultMeta} :
                        ReadOutcome(s, u, tok, m, r[1], r[2])
               ELSE \A m \in MetaInputs \ {DefaultMeta} :
                        ~ReadOutcome(s, u, tok, m, r[1], r[2])
    /\ \A s \in Slots : reqs[s].pc = "serve" => ServeOutcome(s)

C25_Witness ==
    /\ resp.op = "download_file"
    /\ resp.status = 200
    /\ \E i \in 1..Len(logs) :
          /\ logs[i].download_status = "success"
          /\ logs[i].is_bot
          /\ logs[i].is_suspicious
    /\ \E s \in Slots : reqs[s].pc = "serve" /\ reqs[s].security_check.risk_score > 2

(* C26: when a Payment turns an Order paid, the Payment's amount is the    *)
(* Order's total_amount at that moment and the price of the items that     *)
(* receive a token; what quick_checkout adds after initiate_payment took   *)
(* the amount gets no token from that Payment.                             *)
C26_PaidAmountCovers ==
    [][\A o \in OrderIds, pid \in PaymentIds :
          (/\ orders[o].status # "paid"
           /\ orders'[o].status = "paid"
           /\ payments[pid].order = o
           /\ payments[pid].status # "completed"
           /\ payments'[pid].status = "completed") =>
              /\ payments'[pid].amount = orders'[o].total_amount
              /\ payments'[pid].amount =
                    calculate_totals([k \in ItemKeys |->
                                        IF items'[k].download_token # NoToken
                                        THEN items'[k] ELSE NoItem], o)]_vars

C29_FreeOrderOnce ==
    [][/\ \A s \in Slots, u \in Users, o \in OrderIds :
             (/\ resp'.op = "process_free_order"
              /\ process_free_order_read(s, u, o)
              /\ FreeOrderFound(u, o)
              /\ orders[o].total_amount > 0) =>
                     /\ resp'.status = 400
                     /\ UNCHANGED <<orders, items, payments, mpesa, emails, nextToken,
                                    productDownloads, reqs>>
       /\ \A s \in Slots, b \in BOOLEAN :
             (reqs[s].pc = "settle" /\ process_free_order_settle(s, b)) =>
                 LET o == reqs[s].item[1]
                 IN  /\ orders[o].status = "pending"
                     /\ orders[o].user = reqs[s].user
                     /\ orders[o].total_amount = 0
                     /\ \A k \in ItemsOf(o) : items[k].download_token = NoToken]_vars

(* C30: cleanup_expired_orders never deletes an Order that has a Payment   *)
(* in status processing or completed, so the Order of an STK push in       *)
(* flight still exists when the provider's callback arrives.               *)
C30_CleanupSparesInFlight ==
    [][\A o \in OrderIds :
          (OrderExists(o) /\ orders'[o].status = "absent") =>
              ~\E p \in PaymentIds :
                  /\ payments[p].order = o
                  /\ payments[p].status \in {"processing", "completed"}]_vars

====
